---- MODULE Spec2Model ----
(***************************************************************************)
(* Model of the react-mindmap editors.                                     *)
(*                                                                         *)
(*   editor = "MindMapEditor"  src/src/components/MindMapEditor.jsx        *)
(*   editor = "part_001"       src/unnamed/part_001 (the "Final, Robust"   *)
(*                             MindMapEditor with interactionRef)          *)
(*                                                                         *)
(* A node is a record [id, text, children] with children a sequence of     *)
(* nodes, as in the source.  JS null / undefined ids are NullId, a JS null *)
(* node is NullNode.  Node ids are non-empty strings different from        *)
(* NullId, so the truthiness tests of the source (`nodeId && ...`,         *)
(* `!editingId`) are tests against NullId.                                 *)
(***************************************************************************)
EXTENDS Integers, Sequences, FiniteSets, TLC

VARIABLES
    editor,          \* which component is mounted
    initialData,     \* the initialData prop
    data,            \* useState(initialData): the tree snapshot
    viewBox,         \* useState({x, y, width, height})
    editingId,       \* useState(null)
    dropTargetId,    \* useState(null)
    draggingNodeId,  \* MindMapEditor.jsx: useState(null)
    dragPosition,    \* MindMapEditor.jsx: useState({x: 0, y: 0})
    isPanning,       \* MindMapEditor.jsx: useState(false)
    panStart,        \* MindMapEditor.jsx: useState({x: 0, y: 0})
    editText,        \* MindMapEditor.jsx: per-MindMapNode useState(node.text)
    selectedNodeId,  \* part_001: useState(null)
    editedText,      \* part_001: useState('')
    ghostNode,       \* part_001: useState(null)
    interactionRef,  \* part_001: useRef({type: 'none', startPos: {x: 0, y: 0}})
    lastEvent,       \* history: name of the handler that ran last
    prevData,        \* history: the tree snapshot before the last handler ran
    call             \* history: the last direct call of a tree operation

vars == <<editor, initialData, data, viewBox, editingId, dropTargetId,
          draggingNodeId, dragPosition, isPanning, panStart, editText,
          selectedNodeId, editedText, ghostNode, interactionRef,
          lastEvent, prevData, call>>

-----------------------------------------------------------------------------
(* Bounds of the model *)

\* largest number of nodes of an initial tree of the mounted editors
MaxNodes == 3
\* largest number of nodes of a tree handed to a tree operation called directly
MaxFnNodes == 4
\* SpecVp: largest number of nodes of an initial tree, and largest k of a pointer
\* position (100k, 50k)
MaxVpNodes == 2
MaxVpPoint == 1
\* SpecPan: largest number of nodes of an initial tree
MaxPanNodes == 1
\* SpecCalls: largest number of nodes of a tree handed to the layout, of items
\* of a flat list, of tasks of a level, and the largest level
MaxLayoutNodes == 7
MaxItems == 3
MaxTasks == 3
MaxLevel == 5
\* pointer positions are the points (100k, 50k), k in 0..MaxPoint
MaxPoint == 2
\* wheel events are followed while the zoom level stays within -MaxZoom..MaxZoom
MaxZoom == 1
\* pan moves are followed while the viewBox stays within 250 * MaxPan of its start
MaxPan == 2
\* and within MaxVpSteps pan steps or wheel events of the initial viewBox
MaxVpSteps == 2

-----------------------------------------------------------------------------
(* Program constants *)

NODE_WIDTH == 180
NODE_HEIGHT == 60
H_SPACING == 80
V_SPACING == 30

-----------------------------------------------------------------------------
(* JS values *)

NullId == "null"
NullNode == [null |-> TRUE]
Undefined == [undefined |-> TRUE]

Editors == {"MindMapEditor", "part_001"}

\* ids a caller may give the root; MindMapEditor.jsx tests for the literal 'root'
RootIds == {"root", "top"}
ChildIds == <<"a", "b", "c", "d", "e", "f">>
\* an id that no node of any tree carries
AbsentId == "zz"
Texts == <<"t0", "t1">>
TextSet == {Texts[i] : i \in 1..Len(Texts)}

-----------------------------------------------------------------------------
(* Numbers: the source computes with JS numbers; the model computes the    *)
(* same expressions exactly, with rationals [n, d] in lowest terms, d > 0. *)

Abs(i) == IF i < 0 THEN -i ELSE i

RECURSIVE GCD(_, _)
GCD(a, b) == IF b = 0 THEN a ELSE GCD(b, a % b)

Rat(n, d) ==
    LET g == GCD(Abs(n), Abs(d))
        s == IF d < 0 THEN -1 ELSE 1
    IN  [n |-> (s * n) \div g, d |-> (s * d) \div g]

RInt(i) == [n |-> i, d |-> 1]
RAdd(p, q) == Rat(p.n * q.d + q.n * p.d, p.d * q.d)
RSub(p, q) == Rat(p.n * q.d - q.n * p.d, p.d * q.d)
RMul(p, q) == Rat(p.n * q.n, p.d * q.d)
RDiv(p, q) == Rat(p.n * q.d, p.d * q.n)
RLess(p, q) == p.n * q.d < q.n * p.d
RLeq(p, q) == p.n * q.d <= q.n * p.d

-----------------------------------------------------------------------------
(* Tree helpers *)

RECURSIVE findNode(_, _), findNodeIn(_, _, _)
\* const findNode = (node, id) => ...: depth-first, first match, else null
findNode(node, id) ==
    IF node.id = id THEN node ELSE findNodeIn(node.children, id, 1)
\* the `for (const child of children)` loop of findNode, from index i
findNodeIn(children, id, i) ==
    IF i > Len(children) THEN NullNode
    ELSE LET found == findNode(children[i], id)
         IN  IF found # NullNode THEN found ELSE findNodeIn(children, id, i + 1)

\* the id that is falsy in JavaScript
EmptyId == ""

RECURSIVE findNodeCTV(_, _), findNodeCTVIn(_, _, _)
\* ConcentricTaskViewer.jsx findNode: as findNode, after `if (!node || !id) return null`
findNodeCTV(node, id) ==
    IF node = NullNode \/ id = EmptyId \/ id = NullId THEN NullNode
    ELSE IF node.id = id THEN node ELSE findNodeCTVIn(node.children, id, 1)
findNodeCTVIn(children, id, i) ==
    IF i > Len(children) THEN NullNode
    ELSE LET found == findNodeCTV(children[i], id)
         IN  IF found # NullNode THEN found ELSE findNodeCTVIn(children, id, i + 1)

\* a mutant of findNodeOf that looks at the node and its direct children only
findNodeShallow(impl, node, id) ==
    IF node.id = id THEN node
    ELSE IF \E i \in 1..Len(node.children) : node.children[i].id = id
         THEN node.children[CHOOSE i \in 1..Len(node.children) :
                                node.children[i].id = id]
         ELSE NullNode

\* findNode of the specification, as each file implements it
FindNodeImpls == {"MindMapEditor", "part_001", "ConcentricTaskViewer"}
findNodeOf(impl, node, id) ==
    IF impl = "ConcentricTaskViewer" THEN findNodeCTV(node, id) ELSE findNode(node, id)

\* a mutant of isDescendant that compares the node itself only
isDescendantSelfOnly(node, potentialParentId) == node.id = potentialParentId

\* a mutant of isDescendant that looks at the node and its direct children only
isDescendantShallow(node, potentialParentId) ==
    \/ node.id = potentialParentId
    \/ \E i \in 1..Len(node.children) : node.children[i].id = potentialParentId

RECURSIVE isDescendant(_, _)
\* const isDescendant = (node, potentialParentId) => ...
isDescendant(node, potentialParentId) ==
    \/ node.id = potentialParentId
    \/ \E i \in 1..Len(node.children) :
           isDescendant(node.children[i], potentialParentId)

\* a mutant of removeNode that filters the top level only (no recursion)
removeNodeTopOnly(node, id) ==
    [node EXCEPT !.children = SelectSeq(@, LAMBDA c : c.id # id)]

RECURSIVE removeNode(_, _)
\* const removeNode = (node, id) => ({...node, children: filter(...).map(removeNode)})
removeNode(node, id) ==
    LET newChildren == SelectSeq(node.children, LAMBDA c : c.id # id)
    IN  [node EXCEPT !.children =
            [i \in 1..Len(newChildren) |-> removeNode(newChildren[i], id)]]

\* a mutant of addNode that puts the node in front of the new parent's children
addNodeFirst(node, parentId, nodeToAdd) ==
    LET RECURSIVE go(_)
        go(n) == IF n.id = parentId
                 THEN [n EXCEPT !.children = <<nodeToAdd>> \o @]
                 ELSE [n EXCEPT !.children = [i \in 1..Len(@) |-> go(@[i])]]
    IN  go(node)

\* a mutant of addNode that appends the node without its children
addNodeLeaf(node, parentId, nodeToAdd) ==
    LET RECURSIVE go(_)
        go(n) == IF n.id = parentId
                 THEN [n EXCEPT !.children =
                          Append(@, [nodeToAdd EXCEPT !.children = << >>])]
                 ELSE [n EXCEPT !.children = [i \in 1..Len(@) |-> go(@[i])]]
    IN  go(node)

RECURSIVE addNode(_, _, _)
\* const addNode = (node, parentId, nodeToAdd) => ...
addNode(node, parentId, nodeToAdd) ==
    IF node.id = parentId
    THEN [node EXCEPT !.children = Append(@, nodeToAdd)]
    ELSE [node EXCEPT !.children =
            [i \in 1..Len(@) |-> addNode(@[i], parentId, nodeToAdd)]]

\* a mutant of handleReparentNode that also returns early when the target has
\* the dragged node among its children
handleReparentNodeSkipsParent(tree, draggedId, targetId) ==
    IF draggedId = targetId \/ draggedId = "root" THEN tree
    ELSE LET draggedNode == findNode(tree, draggedId)
             targetNode == findNode(tree, targetId)
         IN  IF \/ draggedNode = NullNode
                \/ isDescendant(draggedNode, targetId)
                \/ /\ targetNode # NullNode
                   /\ \E i \in 1..Len(targetNode.children) :
                          targetNode.children[i].id = draggedId
             THEN tree
             ELSE addNode(removeNode(tree, draggedId), targetId, draggedNode)

\* MindMapEditor.jsx handleReparentNode(draggedId, targetId): the value given
\* to setData, or the unchanged snapshot when the handler returns early
handleReparentNode(tree, draggedId, targetId) ==
    IF draggedId = targetId \/ draggedId = "root" THEN tree
    ELSE LET draggedNode == findNode(tree, draggedId)
         IN  IF draggedNode = NullNode \/ isDescendant(draggedNode, targetId)
             THEN tree
             ELSE addNode(removeNode(tree, draggedId), targetId, draggedNode)

\* part_001 handleMouseUp: the updater passed to setData
reparentUpdater(prevTree, nodeId, targetId) ==
    LET draggedNode == findNode(prevTree, nodeId)
    IN  IF draggedNode = NullNode \/ isDescendant(draggedNode, targetId)
        THEN prevTree
        ELSE addNode(removeNode(prevTree, nodeId), targetId, draggedNode)

\* part_001 handleMouseUp: the drag branch, guard included
dropCommit(prevTree, nodeId, targetId) ==
    IF nodeId # NullId /\ targetId # NullId /\ nodeId # targetId
    THEN reparentUpdater(prevTree, nodeId, targetId)
    ELSE prevTree

\* reparentNode of the specification, as each editor implements it
reparentNode(ed, tree, draggedId, targetId) ==
    IF ed = "MindMapEditor"
    THEN handleReparentNode(tree, draggedId, targetId)
    ELSE dropCommit(tree, draggedId, targetId)

\* a mutant of updateRecursively that appends the new text to the old one
updateRecursivelyAppends(node, id, newText) ==
    LET RECURSIVE go(_)
        go(n) == IF n.id = id THEN [n EXCEPT !.text = @ \o newText]
                 ELSE [n EXCEPT !.children = [i \in 1..Len(@) |-> go(@[i])]]
    IN  go(node)

\* a mutant of updateRecursively that returns the renamed node without children
updateRecursivelyLeaf(node, id, newText) ==
    LET RECURSIVE go(_)
        go(n) == IF n.id = id THEN [n EXCEPT !.text = newText, !.children = << >>]
                 ELSE [n EXCEPT !.children = [i \in 1..Len(@) |-> go(@[i])]]
    IN  go(node)

RECURSIVE updateRecursively(_, _, _)
\* MindMapEditor.jsx handleUpdateNode: updateRecursively, with id and newText
updateRecursively(node, id, newText) ==
    IF node.id = id THEN [node EXCEPT !.text = newText]
    ELSE [node EXCEPT !.children =
            [i \in 1..Len(@) |-> updateRecursively(@[i], id, newText)]]

\* a mutant of update that renames the root only (no recursion)
updateTopOnly(n, id, text) == IF n.id = id THEN [n EXCEPT !.text = text] ELSE n

RECURSIVE update(_, _, _)
\* part_001 handleTextBlur / handleBackgroundMouseDown: const update = n => ...
update(n, id, text) ==
    IF n.id = id THEN [n EXCEPT !.text = text]
    ELSE [n EXCEPT !.children = [i \in 1..Len(@) |-> update(@[i], id, text)]]

\* renameNode of the specification, as each file implements it
RenameImpls == {"MindMapEditor", "MindMapPage2", "part_001", "ConcentricTaskViewer"}
renameNodeOf(impl, tree, id, text) ==
    CASE impl \in {"MindMapEditor", "MindMapPage2"} -> updateRecursively(tree, id, text)
      [] impl = "part_001" ->
            LET node == findNode(tree, id)
            IN  IF node # NullNode /\ node.text # text THEN update(tree, id, text) ELSE tree
      [] OTHER ->
            LET node == findNodeCTV(tree, id)
            IN  IF node # NullNode /\ node.text # text THEN update(tree, id, text) ELSE tree

-----------------------------------------------------------------------------
(* Layout: nodePositions *)

\* a mutant of totalChildHeight that leaves out the spacing correction
totalChildHeightNoGap(children) == Len(children) * (NODE_HEIGHT + V_SPACING)

\* const totalChildHeight = children.length * (NODE_HEIGHT + V_SPACING) - V_SPACING
totalChildHeight(children) == Len(children) * (NODE_HEIGHT + V_SPACING) - V_SPACING

\* a mutant of levelX that forgets the horizontal spacing
levelXNoSpacing(level) == level * NODE_WIDTH

\* const x = level * (NODE_WIDTH + H_SPACING)
levelX(level) == level * (NODE_WIDTH + H_SPACING)

RECURSIVE calculatePositions(_, _, _, _), calculateChildren(_, _, _, _, _)
\* function calculatePositions(node, level, parentY), with the Map it fills
calculatePositions(positions, node, level, parentY) ==
    LET set == (node.id :> [x |-> levelX(level), y |-> parentY]) @@ positions
        currentY == RSub(parentY, Rat(totalChildHeight(node.children), 2))
    IN  calculateChildren(set, node.children, 1, level, currentY)
\* children.forEach(child => ...), from index i with the running currentY
calculateChildren(positions, children, i, level, currentY) ==
    IF i > Len(children) THEN positions
    ELSE LET childY == RAdd(currentY, Rat(NODE_HEIGHT, 2))
         IN  calculateChildren(
                 calculatePositions(positions, children[i], level + 1, childY),
                 children, i + 1, level,
                 RAdd(currentY, RInt(NODE_HEIGHT + V_SPACING)))

\* the nodePositions memo: calculatePositions(data, 0, 0) on an empty Map
nodePositions(tree) == calculatePositions(<< >>, tree, 0, RInt(0))

-----------------------------------------------------------------------------
(* Observations of a tree, used to state properties *)

RECURSIVE PreorderIds(_), PreorderIdsIn(_, _)
\* the ids of a tree in depth-first order, with repetitions
PreorderIds(node) == <<node.id>> \o PreorderIdsIn(node.children, 1)
PreorderIdsIn(children, i) ==
    IF i > Len(children) THEN << >>
    ELSE PreorderIds(children[i]) \o PreorderIdsIn(children, i + 1)

SeqToSet(s) == {s[i] : i \in 1..Len(s)}
NodeIds(tree) == SeqToSet(PreorderIds(tree))
IsInjective(s) == \A i, j \in 1..Len(s) : s[i] = s[j] => i = j
UniqueIds(tree) == IsInjective(PreorderIds(tree))

ChildIdSeq(node) == [i \in 1..Len(node.children) |-> node.children[i].id]

RECURSIVE ParentOfIn(_, _)
\* the id of the parent of the node with this id, NullId when there is none
ParentOf(tree, id) == ParentOfIn(<<tree>>, id)
ParentOfIn(nodes, id) ==
    IF nodes = << >> THEN NullId
    ELSE LET n == Head(nodes)
         IN  IF \E i \in 1..Len(n.children) : n.children[i].id = id
             THEN n.id
             ELSE ParentOfIn(n.children \o Tail(nodes), id)

RemoveId(s, id) == SelectSeq(s, LAMBDA x : x # id)

-----------------------------------------------------------------------------
(* Initial trees *)

IdOf(i, rootId) == IF i = 1 THEN rootId ELSE ChildIds[i - 1]
TextOf(i) == Texts[(i % Len(Texts)) + 1]

\* node 1 is the root; every other node i hangs under a node p[i] < i
ParentMaps(n) == {p \in [2..n -> 1..n] : \A i \in 2..n : p[i] < i}

RECURSIVE buildNode(_, _, _, _)
buildNode(i, p, n, rootId) ==
    LET kids == SelectSeq([k \in 1..n |-> k], LAMBDA j : j > 1 /\ p[j] = i)
    IN  [id |-> IdOf(i, rootId), text |-> TextOf(i),
         children |-> [k \in 1..Len(kids) |-> buildNode(kids[k], p, n, rootId)]]

RECURSIVE Forests(_, _)
\* every sequence of trees that uses exactly the nodes S, in every order
Forests(S, rootId) ==
    IF S = {} THEN {<< >>}
    ELSE UNION {UNION {
            {<<[id |-> IdOf(r, rootId), text |-> TextOf(r), children |-> kids]>> \o rest :
                kids \in Forests(S1 \ {r}, rootId), rest \in Forests(S \ S1, rootId)}
            : r \in S1} : S1 \in (SUBSET S) \ {{}}}

\* every tree of up to max nodes, the children of a node in every order
AllTrees(max) ==
    UNION {{[id |-> IdOf(1, r), text |-> TextOf(1), children |-> f] :
               f \in UNION {Forests(2..n, r) : n \in 1..max}} : r \in RootIds}

\* the trees of up to max nodes with the children of a node in creation order
TreesUpTo(max) ==
    UNION {UNION {{buildNode(1, p, n, r) : p \in ParentMaps(n)} : n \in 1..max}
           : r \in RootIds}

-----------------------------------------------------------------------------
(* The renderer: pointer positions and the svg element *)

Origin == [x |-> 0, y |-> 0]
\* clientX / clientY of the pointer events
ClientPointsUpTo(max) == {[x |-> 100 * k, y |-> 50 * k] : k \in 0..max}
ClientPoints == ClientPointsUpTo(MaxPoint)
\* svgPoint.matrixTransform(CTM): the browser's matrix decides the value
LogicalPoints == {[x |-> 10 * k, y |-> 10 * k] : k \in 0..MaxPoint}
\* svg.getBoundingClientRect(); svg.clientWidth is its width
SvgRect == [left |-> 0, top |-> 0, width |-> 500, height |-> 400]

\* useState({ x: -200, y: -400, width: 1000, height: 800 })
InitViewBox ==
    [x |-> RInt(-200), y |-> RInt(-400), width |-> RInt(1000), height |-> RInt(800)]

RECURSIVE RPow(_, _)
RPow(q, k) == IF k = 0 THEN RInt(1) ELSE RMul(q, RPow(q, k - 1))
RAbs(q) == [n |-> Abs(q.n), d |-> q.d]

zoomFactor == Rat(11, 10)

\* the pan step of handleGlobalMouseMove / handleMouseMove
panBy(vb, start, e) ==
    LET dx == RInt(e.x - start.x)
        dy == RInt(e.y - start.y)
        scale == RDiv(vb.width, RInt(SvgRect.width))
    IN  [vb EXCEPT !.x = RSub(@, RMul(dx, scale)), !.y = RSub(@, RMul(dy, scale))]

\* a mutant of zoomAtIn that forgets the offset of the svg element in the page
zoomAtInNoOffset(vb, rect, e, deltaY) ==
    LET w == RInt(rect.width)
        h == RInt(rect.height)
        mouseX == RAdd(vb.x, RMul(RInt(e.x - rect.left), RDiv(vb.width, w)))
        mouseY == RAdd(vb.y, RMul(RInt(e.y - rect.top), RDiv(vb.height, h)))
        newWidth == IF deltaY < 0 THEN RDiv(vb.width, zoomFactor)
                                  ELSE RMul(vb.width, zoomFactor)
        newHeight == IF deltaY < 0 THEN RDiv(vb.height, zoomFactor)
                                   ELSE RMul(vb.height, zoomFactor)
    IN  [x |-> RSub(mouseX, RMul(RInt(e.x), RDiv(newWidth, w))),
         y |-> RSub(mouseY, RMul(RInt(e.y), RDiv(newHeight, h))),
         width |-> newWidth, height |-> newHeight]

\* handleWheel: the viewBox given to setViewBox, with rect the value of
\* svg.getBoundingClientRect()
zoomAtIn(vb, rect, e, deltaY) ==
    LET cx == RInt(e.x - rect.left)
        cy == RInt(e.y - rect.top)
        w == RInt(rect.width)
        h == RInt(rect.height)
        mouseX == RAdd(vb.x, RMul(cx, RDiv(vb.width, w)))
        mouseY == RAdd(vb.y, RMul(cy, RDiv(vb.height, h)))
        newWidth == IF deltaY < 0 THEN RDiv(vb.width, zoomFactor)
                                  ELSE RMul(vb.width, zoomFactor)
        newHeight == IF deltaY < 0 THEN RDiv(vb.height, zoomFactor)
                                   ELSE RMul(vb.height, zoomFactor)
    IN  [x |-> RSub(mouseX, RMul(cx, RDiv(newWidth, w))),
         y |-> RSub(mouseY, RMul(cy, RDiv(newHeight, h))),
         width |-> newWidth, height |-> newHeight]

\* handleWheel on the svg element of the editors
zoomAt(vb, e, deltaY) == zoomAtIn(vb, SvgRect, e, deltaY)

\* the viewports the model follows
ZoomInBounds(vb) ==
    /\ RLeq(RMul(InitViewBox.width, RPow(RDiv(RInt(1), zoomFactor), MaxZoom)), vb.width)
    /\ RLeq(vb.width, RMul(InitViewBox.width, RPow(zoomFactor, MaxZoom)))
PanInBounds(vb) ==
    /\ RLeq(RAbs(RSub(vb.x, InitViewBox.x)), RInt(250 * MaxPan))
    /\ RLeq(RAbs(RSub(vb.y, InitViewBox.y)), RInt(250 * MaxPan))
RECURSIVE ViewportsWithin(_)
\* the viewports at most k pan steps or wheel events away from the initial one
ViewportsWithin(k) ==
    IF k = 0 THEN {InitViewBox}
    ELSE LET near == ViewportsWithin(k - 1)
         IN  near \cup {panBy(vb, start, e) :
                            vb \in near, start \in ClientPoints, e \in ClientPoints}
                  \cup {zoomAt(vb, e, deltaY) :
                            vb \in near, e \in ClientPoints, deltaY \in {-1, 1}}
FollowedViewports ==
    {vb \in ViewportsWithin(MaxVpSteps) : ZoomInBounds(vb) /\ PanInBounds(vb)}

-----------------------------------------------------------------------------
(* State after mounting *)

NoCall == [op |-> "none"]

Mounted(trees) ==
    /\ editor \in Editors
    /\ initialData \in trees
    /\ data = initialData
    /\ viewBox = InitViewBox
    /\ editingId = NullId
    /\ dropTargetId = NullId
    /\ draggingNodeId = NullId
    /\ dragPosition = Origin
    /\ isPanning = FALSE
    /\ panStart = Origin
    /\ editText = [id \in NodeIds(initialData) |-> findNode(initialData, id).text]
    /\ selectedNodeId = NullId
    /\ editedText = ""
    /\ ghostNode = NullNode
    /\ interactionRef = [type |-> "none", startPos |-> Origin, nodeId |-> NullId]
    /\ lastEvent = "mount"
    /\ prevData = initialData
    /\ call = NoCall

Init == Mounted(TreesUpTo(MaxNodes))

constVars == <<editor, initialData, call>>
varsA == <<draggingNodeId, dragPosition, isPanning, panStart, editText>>
varsB == <<selectedNodeId, editedText, ghostNode, interactionRef>>

\* every handler leaves the history of what ran and on which snapshot; hover,
\* move, typing and wheel events are recorded as "other"
Ran(name) == lastEvent' = name /\ prevData' = data

-----------------------------------------------------------------------------
(* MindMapEditor.jsx: the handlers *)

IsA == editor = "MindMapEditor"

\* a MindMapNode that receives pointer events: pointerEvents is 'none' on the
\* node being dragged (isGhost)
PointerNodeA(n) == n \in NodeIds(data) /\ draggingNodeId # n

\* handleNodeMouseDown(e, nodeId); e.stopPropagation() keeps it from the svg
A_handleNodeMouseDown(n) ==
    /\ IsA /\ PointerNodeA(n)
    /\ draggingNodeId' = IF n # "root" THEN n ELSE draggingNodeId
    /\ Ran("nodeMouseDown")
    /\ UNCHANGED <<data, viewBox, editingId, dropTargetId, dragPosition,
                   isPanning, panStart, editText>>
    /\ UNCHANGED varsB /\ UNCHANGED constVars

\* svg onMouseDown={(e) => { setIsPanning(true); setPanStart(...) }}
A_svgMouseDown(e) ==
    /\ IsA
    /\ isPanning' = TRUE
    /\ panStart' = e
    /\ Ran("backgroundMouseDown")
    /\ UNCHANGED <<data, viewBox, editingId, dropTargetId, draggingNodeId,
                   dragPosition, editText>>
    /\ UNCHANGED varsB /\ UNCHANGED constVars

\* a mutant of onNodeMouseOver that drops the dragged node as soon as it hovers
A_onNodeMouseOverReparents(n) ==
    /\ IsA /\ PointerNodeA(n)
    /\ dropTargetId' = n
    /\ data' = IF draggingNodeId # NullId
               THEN handleReparentNode(data, draggingNodeId, n) ELSE data
    /\ Ran("other")
    /\ UNCHANGED <<viewBox, editingId>>
    /\ UNCHANGED varsA /\ UNCHANGED varsB /\ UNCHANGED constVars

\* onNodeMouseOver={setDropTargetId}
A_onNodeMouseOver(n) ==
    /\ IsA /\ PointerNodeA(n)
    /\ dropTargetId' = n
    /\ Ran("other")
    /\ UNCHANGED <<data, viewBox, editingId>>
    /\ UNCHANGED varsA /\ UNCHANGED varsB /\ UNCHANGED constVars

\* onNodeMouseOut={() => setDropTargetId(null)}
A_onNodeMouseOut ==
    /\ IsA /\ \E n \in NodeIds(data) : PointerNodeA(n)
    /\ dropTargetId' = NullId
    /\ Ran("other")
    /\ UNCHANGED <<data, viewBox, editingId>>
    /\ UNCHANGED varsA /\ UNCHANGED varsB /\ UNCHANGED constVars

\* a mutant of handleGlobalMouseMove that never moves the start of the pan step
A_handleGlobalMouseMoveKeepsStart(e, ctm, pt) ==
    /\ IsA
    /\ IF isPanning
       THEN IF ~ctm
            THEN UNCHANGED <<viewBox, dragPosition>>
            ELSE /\ panBy(viewBox, panStart, e) \in FollowedViewports
                 /\ viewBox' = panBy(viewBox, panStart, e)
                 /\ UNCHANGED dragPosition
       ELSE IF draggingNodeId # NullId /\ ctm
            THEN dragPosition' = pt /\ UNCHANGED viewBox
            ELSE UNCHANGED <<viewBox, dragPosition>>
    /\ Ran("other")
    /\ UNCHANGED <<data, editingId, dropTargetId, draggingNodeId, isPanning,
                   panStart, editText>>
    /\ UNCHANGED varsB /\ UNCHANGED constVars

\* handleGlobalMouseMove(e); ctm is whether svg.getScreenCTM() gave a matrix,
\* pt is the transformed point
A_handleGlobalMouseMove(e, ctm, pt) ==
    /\ IsA
    /\ IF isPanning
       THEN IF ~ctm
            THEN UNCHANGED <<viewBox, panStart, dragPosition>>
            ELSE /\ panBy(viewBox, panStart, e) \in FollowedViewports
                 /\ viewBox' = panBy(viewBox, panStart, e)
                 /\ panStart' = e
                 /\ UNCHANGED dragPosition
       ELSE IF draggingNodeId # NullId /\ ctm
            THEN dragPosition' = pt /\ UNCHANGED <<viewBox, panStart>>
            ELSE UNCHANGED <<viewBox, panStart, dragPosition>>
    /\ Ran("other")
    /\ UNCHANGED <<data, editingId, dropTargetId, draggingNodeId, isPanning, editText>>
    /\ UNCHANGED varsB /\ UNCHANGED constVars

\* a mutant of handleGlobalMouseUp that ends the drag without reparenting
A_handleGlobalMouseUpNoCommit(name) ==
    /\ IsA
    /\ draggingNodeId' = NullId
    /\ dropTargetId' = NullId
    /\ isPanning' = FALSE
    /\ Ran(name)
    /\ UNCHANGED <<data, viewBox, editingId, dragPosition, panStart, editText>>
    /\ UNCHANGED varsB /\ UNCHANGED constVars

\* handleGlobalMouseUp, wired to onMouseUp and to onMouseLeave
A_handleGlobalMouseUp(name) ==
    /\ IsA
    /\ data' = IF draggingNodeId # NullId /\ dropTargetId # NullId
               THEN handleReparentNode(data, draggingNodeId, dropTargetId)
               ELSE data
    /\ draggingNodeId' = NullId
    /\ dropTargetId' = NullId
    /\ isPanning' = FALSE
    /\ Ran(name)
    /\ UNCHANGED <<viewBox, editingId, dragPosition, panStart, editText>>
    /\ UNCHANGED varsB /\ UNCHANGED constVars

\* onStartEdit={setEditingId}, from onDoubleClick of the display-mode group
A_onStartEdit(n) ==
    /\ IsA /\ PointerNodeA(n) /\ editingId # n
    /\ editingId' = n
    /\ Ran("doubleClick")
    /\ UNCHANGED <<data, viewBox, dropTargetId>>
    /\ UNCHANGED varsA /\ UNCHANGED varsB /\ UNCHANGED constVars

\* the MindMapNode being edited, if it is rendered
EditedNodeA == editingId # NullId /\ editingId \in NodeIds(data)

\* textarea onChange={(e) => setEditText(e.target.value)}
A_onChange(s) ==
    /\ IsA /\ EditedNodeA
    /\ editText' = [editText EXCEPT ![editingId] = s]
    /\ Ran("other")
    /\ UNCHANGED <<data, viewBox, editingId, dropTargetId, draggingNodeId,
                   dragPosition, isPanning, panStart>>
    /\ UNCHANGED varsB /\ UNCHANGED constVars

\* handleSave (Enter without Shift, or the save button): handleUpdateNode(node.id,
\* editText); the effect on [node.text] then sets editText to the new text
A_handleSave(name) ==
    /\ IsA /\ EditedNodeA
    /\ data' = updateRecursively(data, editingId, editText[editingId])
    /\ editingId' = NullId
    /\ editText' = [editText EXCEPT ![editingId] = findNode(data', editingId).text]
    /\ Ran(name)
    /\ UNCHANGED <<viewBox, dropTargetId, draggingNodeId, dragPosition,
                   isPanning, panStart>>
    /\ UNCHANGED varsB /\ UNCHANGED constVars

\* a mutant of onCancel that commits the draft as handleSave does
A_onCancelCommits(name) ==
    /\ IsA /\ EditedNodeA
    /\ data' = updateRecursively(data, editingId, editText[editingId])
    /\ editingId' = NullId
    /\ editText' = [editText EXCEPT ![editingId] = findNode(data', editingId).text]
    /\ Ran(name)
    /\ UNCHANGED <<viewBox, dropTargetId, draggingNodeId, dragPosition,
                   isPanning, panStart>>
    /\ UNCHANGED varsB /\ UNCHANGED constVars

\* onCancel={() => setEditingId(null)} (Escape, or the cancel button)
A_onCancel(name) ==
    /\ IsA /\ EditedNodeA
    /\ editingId' = NullId
    /\ Ran(name)
    /\ UNCHANGED <<data, viewBox, dropTargetId>>
    /\ UNCHANGED varsA /\ UNCHANGED varsB /\ UNCHANGED constVars

\* handleWheel(e)
A_handleWheel(e, deltaY) ==
    /\ IsA
    /\ zoomAt(viewBox, e, deltaY) \in FollowedViewports
    /\ viewBox' = zoomAt(viewBox, e, deltaY)
    /\ Ran("other")
    /\ UNCHANGED <<data, editingId, dropTargetId>>
    /\ UNCHANGED varsA /\ UNCHANGED varsB /\ UNCHANGED constVars

\* the events of MindMapEditor.jsx, with pointer positions from P, transformed
\* points from L and typed texts from T
NextA(P, L, T) ==
    \/ \E n \in NodeIds(data) : A_handleNodeMouseDown(n)
    \/ \E e \in P : A_svgMouseDown(e)
    \/ \E n \in NodeIds(data) : A_onNodeMouseOver(n)
    \/ A_onNodeMouseOut
    \/ \E e \in P, ctm \in BOOLEAN, pt \in L : A_handleGlobalMouseMove(e, ctm, pt)
    \/ \E name \in {"mouseUp", "mouseLeave"} : A_handleGlobalMouseUp(name)
    \/ \E n \in NodeIds(data) : A_onStartEdit(n)
    \/ \E s \in T : A_onChange(s)
    \/ \E name \in {"enter", "saveButton"} : A_handleSave(name)
    \/ \E name \in {"escape", "cancelButton"} : A_onCancel(name)
    \/ \E e \in P, deltaY \in {-1, 1} : A_handleWheel(e, deltaY)

-----------------------------------------------------------------------------
(* part_001: the handlers *)

IsB == editor = "part_001"

\* renderNodes draws no MindMapNode for the node the ghost stands for
ShownB(n) ==
    /\ n \in NodeIds(data)
    /\ ~(ghostNode # NullNode /\ ghostNode.id = n)
\* the rect with onMouseDown / onDoubleClick exists in display mode only
RectB(n) == ShownB(n) /\ editingId # n
\* the textarea exists while its node is shown in edit mode
TextareaB == editingId # NullId /\ ShownB(editingId)

\* handleNodeMouseDown(e, nodeId)
B_handleNodeMouseDown(n, e) ==
    /\ IsB /\ RectB(n)
    /\ interactionRef' = [type |-> "drag", startPos |-> e, nodeId |-> n]
    /\ selectedNodeId' = n
    /\ Ran("nodeMouseDown")
    /\ UNCHANGED <<data, viewBox, editingId, dropTargetId, editedText, ghostNode>>
    /\ UNCHANGED varsA /\ UNCHANGED constVars

\* a mutant of handleNodeDoubleClick that also zooms in, as a browser does
B_handleNodeDoubleClickZooms(n) ==
    /\ IsB /\ RectB(n)
    /\ interactionRef' = [type |-> "edit", startPos |-> Undefined, nodeId |-> NullId]
    /\ ghostNode' = NullNode
    /\ viewBox' = zoomAt(viewBox, Origin, -1)
    /\ LET node == findNode(data, n)
       IN  IF node # NullNode
           THEN /\ editingId' = n
                /\ editedText' = node.text
                /\ selectedNodeId' = n
           ELSE UNCHANGED <<editingId, editedText, selectedNodeId>>
    /\ Ran("doubleClick")
    /\ UNCHANGED <<data, dropTargetId>>
    /\ UNCHANGED varsA /\ UNCHANGED constVars

\* handleNodeDoubleClick(e, nodeId)
B_handleNodeDoubleClick(n) ==
    /\ IsB /\ RectB(n)
    /\ interactionRef' = [type |-> "edit", startPos |-> Undefined, nodeId |-> NullId]
    /\ ghostNode' = NullNode
    /\ LET node == findNode(data, n)
       IN  IF node # NullNode
           THEN /\ editingId' = n
                /\ editedText' = node.text
                /\ selectedNodeId' = n
           ELSE UNCHANGED <<editingId, editedText, selectedNodeId>>
    /\ Ran("doubleClick")
    /\ UNCHANGED <<data, viewBox, dropTargetId>>
    /\ UNCHANGED varsA /\ UNCHANGED constVars

\* the auto-save shared by handleBackgroundMouseDown and handleTextBlur: the
\* snapshot after `if (node && node.text !== editedText) setData(update)`
autoSave(tree, id, text) ==
    LET node == findNode(tree, id)
    IN  IF node # NullNode /\ node.text # text THEN update(tree, id, text) ELSE tree

\* a mutant of handleBackgroundMouseDown that drops the draft instead of saving
B_handleBackgroundMouseDownDiscards(e) ==
    /\ IsB
    /\ editingId' = NullId
    /\ selectedNodeId' = NullId
    /\ interactionRef' = [type |-> "pan", startPos |-> e, nodeId |-> NullId]
    /\ Ran("backgroundMouseDown")
    /\ UNCHANGED <<data, viewBox, dropTargetId, editedText, ghostNode>>
    /\ UNCHANGED varsA /\ UNCHANGED constVars

\* handleBackgroundMouseDown(e)
B_handleBackgroundMouseDown(e) ==
    /\ IsB
    /\ data' = IF editingId # NullId THEN autoSave(data, editingId, editedText) ELSE data
    /\ editingId' = NullId
    /\ selectedNodeId' = NullId
    /\ interactionRef' = [type |-> "pan", startPos |-> e, nodeId |-> NullId]
    /\ Ran("backgroundMouseDown")
    /\ UNCHANGED <<viewBox, dropTargetId, editedText, ghostNode>>
    /\ UNCHANGED varsA /\ UNCHANGED constVars

\* the ghost after the drag branch of handleMouseMove: created from the tree on
\* the first move, then placed at the transformed point when there is a matrix
ghostAfterMove(ctm, pt) ==
    LET nodeData == findNode(data, interactionRef.nodeId)
        made == IF ghostNode = NullNode /\ nodeData # NullNode
                THEN [id |-> nodeData.id, text |-> nodeData.text,
                      children |-> nodeData.children, pos |-> Undefined]
                ELSE ghostNode
    IN  IF ctm /\ made # NullNode THEN [made EXCEPT !.pos = pt] ELSE made

\* handleMouseMove(e)
B_handleMouseMove(e, ctm, pt) ==
    /\ IsB
    /\ CASE interactionRef.type = "pan" ->
              /\ panBy(viewBox, interactionRef.startPos, e) \in FollowedViewports
              /\ viewBox' = panBy(viewBox, interactionRef.startPos, e)
              /\ interactionRef' = [interactionRef EXCEPT !.startPos = e]
              /\ UNCHANGED ghostNode
         [] interactionRef.type = "drag" ->
              /\ ghostNode' = ghostAfterMove(ctm, pt)
              /\ UNCHANGED <<viewBox, interactionRef>>
         [] OTHER -> UNCHANGED <<viewBox, interactionRef, ghostNode>>
    /\ Ran("other")
    /\ UNCHANGED <<data, editingId, dropTargetId, selectedNodeId, editedText>>
    /\ UNCHANGED varsA /\ UNCHANGED constVars

\* a mutant of handleMouseUp that does not clear the drop target
B_handleMouseUpKeepsTarget(name) ==
    /\ IsB
    /\ data' = IF interactionRef.type = "drag"
               THEN dropCommit(data, interactionRef.nodeId, dropTargetId)
               ELSE data
    /\ interactionRef' = [type |-> "none", startPos |-> Undefined, nodeId |-> NullId]
    /\ ghostNode' = NullNode
    /\ Ran(name)
    /\ UNCHANGED <<viewBox, editingId, dropTargetId, selectedNodeId, editedText>>
    /\ UNCHANGED varsA /\ UNCHANGED constVars

\* handleMouseUp, wired to onMouseUp and to onMouseLeave
B_handleMouseUp(name) ==
    /\ IsB
    /\ data' = IF interactionRef.type = "drag"
               THEN dropCommit(data, interactionRef.nodeId, dropTargetId)
               ELSE data
    /\ interactionRef' = [type |-> "none", startPos |-> Undefined, nodeId |-> NullId]
    /\ ghostNode' = NullNode
    /\ dropTargetId' = NullId
    /\ Ran(name)
    /\ UNCHANGED <<viewBox, editingId, selectedNodeId, editedText>>
    /\ UNCHANGED varsA /\ UNCHANGED constVars

\* handleTextBlur()
B_handleTextBlur ==
    /\ IsB /\ TextareaB
    /\ data' = autoSave(data, editingId, editedText)
    /\ editingId' = NullId
    /\ Ran("blur")
    /\ UNCHANGED <<viewBox, dropTargetId>>
    /\ UNCHANGED varsB /\ UNCHANGED varsA /\ UNCHANGED constVars

\* onTextChange={(e) => setEditedText(e.target.value)}
B_onTextChange(s) ==
    /\ IsB /\ TextareaB
    /\ editedText' = s
    /\ Ran("other")
    /\ UNCHANGED <<data, viewBox, editingId, dropTargetId, selectedNodeId,
                   ghostNode, interactionRef>>
    /\ UNCHANGED varsA /\ UNCHANGED constVars

\* onNodeMouseOver={setDropTargetId}
B_onNodeMouseOver(n) ==
    /\ IsB /\ ShownB(n)
    /\ dropTargetId' = n
    /\ Ran("other")
    /\ UNCHANGED <<data, viewBox, editingId>>
    /\ UNCHANGED varsB /\ UNCHANGED varsA /\ UNCHANGED constVars

\* onNodeMouseOut={() => setDropTargetId(null)}
B_onNodeMouseOut ==
    /\ IsB /\ \E n \in NodeIds(data) : ShownB(n)
    /\ dropTargetId' = NullId
    /\ Ran("other")
    /\ UNCHANGED <<data, viewBox, editingId>>
    /\ UNCHANGED varsB /\ UNCHANGED varsA /\ UNCHANGED constVars

\* handleWheel(e)
B_handleWheel(e, deltaY) ==
    /\ IsB
    /\ zoomAt(viewBox, e, deltaY) \in FollowedViewports
    /\ viewBox' = zoomAt(viewBox, e, deltaY)
    /\ Ran("other")
    /\ UNCHANGED <<data, editingId, dropTargetId>>
    /\ UNCHANGED varsB /\ UNCHANGED varsA /\ UNCHANGED constVars

\* the events of part_001, with the same inputs
NextB(P, L, T) ==
    \/ \E n \in NodeIds(data), e \in P : B_handleNodeMouseDown(n, e)
    \/ \E n \in NodeIds(data) : B_handleNodeDoubleClick(n)
    \/ \E e \in P : B_handleBackgroundMouseDown(e)
    \/ \E e \in P, ctm \in BOOLEAN, pt \in L : B_handleMouseMove(e, ctm, pt)
    \/ \E name \in {"mouseUp", "mouseLeave"} : B_handleMouseUp(name)
    \/ B_handleTextBlur
    \/ \E s \in T : B_onTextChange(s)
    \/ \E n \in NodeIds(data) : B_onNodeMouseOver(n)
    \/ B_onNodeMouseOut
    \/ \E e \in P, deltaY \in {-1, 1} : B_handleWheel(e, deltaY)

-----------------------------------------------------------------------------
(* Spec: the gestures and the tree.  No handler reads a pointer position to   *)
(* decide what happens to the tree or to the gesture, so the pointer stays at *)
(* the origin here and the user types the one text TypedText.                 *)

TypedText == Texts[Len(Texts)]

Next ==
    \/ NextA({Origin}, {Origin}, {TypedText})
    \/ NextB({Origin}, {Origin}, {TypedText})

Spec == Init /\ [][Next]_vars

-----------------------------------------------------------------------------
(* SpecVp: the same handlers with the pointer at the points of               *)
(* ClientPointsUpTo(MaxVpPoint), on the trees of up to MaxVpNodes nodes, to   *)
(* follow the viewport through pans, zooms, edits and drops.                  *)

InitVp == Mounted(TreesUpTo(MaxVpNodes))

NextVp ==
    \/ NextA(ClientPointsUpTo(MaxVpPoint), {Origin}, {TypedText})
    \/ NextB(ClientPointsUpTo(MaxVpPoint), {Origin}, {TypedText})

SpecVp == InitVp /\ [][NextVp]_vars

-----------------------------------------------------------------------------
(* SpecPan: the same handlers with the pointer at every point of ClientPoints *)
(* and every transformed point of LogicalPoints, on the trees of up to        *)
(* MaxPanNodes nodes, to follow pan gestures of several moves.                *)

InitPan == Mounted(TreesUpTo(MaxPanNodes))

NextPan ==
    \/ NextA(ClientPoints, LogicalPoints, {TypedText})
    \/ NextB(ClientPoints, LogicalPoints, {TypedText})

SpecPan == InitPan /\ [][NextPan]_vars

-----------------------------------------------------------------------------
(* SpecFn: the tree operations called directly, on every tree of up to      *)
(* MaxFnNodes nodes and with every id of the tree, or an id of no node, as   *)
(* an argument.  Only the root may carry the id 'root'.                      *)
(* A call reads the mounted tree only, so each behaviour makes one call and  *)
(* records it in `call`.                                                     *)

InitFn == Mounted(AllTrees(MaxFnNodes))

FnIds == NodeIds(initialData) \cup {AbsentId}

\* reparentNode(data, draggedId, newParentId)
Fn_reparentNode(a, b) ==
    /\ call = NoCall
    /\ call' = [op |-> "reparentNode", tree |-> data, a |-> a, b |-> b,
                result |-> reparentNode(editor, data, a, b)]
    /\ UNCHANGED <<editor, initialData, data, viewBox, editingId, dropTargetId,
                   lastEvent, prevData>>
    /\ UNCHANGED varsA /\ UNCHANGED varsB

\* findNode(data, id), in each of the three files that define it
Fn_findNode(impl, id) ==
    /\ call = NoCall
    /\ call' = [op |-> "findNode", impl |-> impl, tree |-> data, id |-> id,
                result |-> findNodeOf(impl, data, id)]
    /\ UNCHANGED <<editor, initialData, data, viewBox, editingId, dropTargetId,
                   lastEvent, prevData>>
    /\ UNCHANGED varsA /\ UNCHANGED varsB

\* renameNode(data, id, s), and the same commit delivered a second time
Fn_renameNode(impl, id, s) ==
    /\ call = NoCall
    /\ call' = [op |-> "renameNode", impl |-> impl, tree |-> data, id |-> id,
                text |-> s,
                result |-> renameNodeOf(impl, data, id, s),
                twice |-> renameNodeOf(impl, renameNodeOf(impl, data, id, s), id, s)]
    /\ UNCHANGED <<editor, initialData, data, viewBox, editingId, dropTargetId,
                   lastEvent, prevData>>
    /\ UNCHANGED varsA /\ UNCHANGED varsB

\* isDescendant(node, id) on the node n of the tree
Fn_isDescendant(n, id) ==
    /\ call = NoCall
    /\ call' = [op |-> "isDescendant", tree |-> data, node |-> n, id |-> id,
                result |-> isDescendant(findNode(data, n), id)]
    /\ UNCHANGED <<editor, initialData, data, viewBox, editingId, dropTargetId,
                   lastEvent, prevData>>
    /\ UNCHANGED varsA /\ UNCHANGED varsB

\* the nodePositions memo computed for the tree
Fn_nodePositions ==
    /\ call = NoCall
    /\ call' = [op |-> "nodePositions", tree |-> data,
                result |-> nodePositions(data)]
    /\ UNCHANGED <<editor, initialData, data, viewBox, editingId, dropTargetId,
                   lastEvent, prevData>>
    /\ UNCHANGED varsA /\ UNCHANGED varsB

NextFn ==
    \/ \E a \in FnIds, b \in FnIds : Fn_reparentNode(a, b)
    \/ \E impl \in FindNodeImpls, id \in FnIds \cup {EmptyId} : Fn_findNode(impl, id)
    \/ \E impl \in RenameImpls, id \in FnIds, s \in TextSet : Fn_renameNode(impl, id, s)
    \/ \E n \in NodeIds(data), id \in FnIds : Fn_isDescendant(n, id)
    \/ Fn_nodePositions

SpecFn == InitFn /\ [][NextFn]_vars

-----------------------------------------------------------------------------
(* SpecZoom: the computation of handleWheel called directly, on every        *)
(* followed viewport, with the svg element at several places of the page and *)
(* the pointer at the corners, on the edges and inside of the element.       *)

\* values of svg.getBoundingClientRect()
ScreenRects ==
    {SvgRect,
     [left |-> 8, top |-> 16, width |-> 640, height |-> 480],
     [left |-> 37, top |-> 5, width |-> 300, height |-> 700]}
\* clientX / clientY of a wheel event over the element
PointsIn(rect) ==
    {[x |-> rect.left + (rect.width * i) \div MaxPoint,
      y |-> rect.top + (rect.height * j) \div MaxPoint] : i, j \in 0..MaxPoint}

InitZoom == Mounted(TreesUpTo(MaxPanNodes))

\* handleWheel(e) with viewBox = vb and getBoundingClientRect() = rect
Fn_zoomAt(vb, rect, e, deltaY) ==
    /\ call = NoCall
    /\ call' = [op |-> "zoomAt", vb |-> vb, rect |-> rect, e |-> e,
                deltaY |-> deltaY, result |-> zoomAtIn(vb, rect, e, deltaY)]
    /\ UNCHANGED <<editor, initialData, data, viewBox, editingId, dropTargetId,
                   lastEvent, prevData>>
    /\ UNCHANGED varsA /\ UNCHANGED varsB

NextZoom ==
    \E vb \in FollowedViewports, rect \in ScreenRects, deltaY \in {-1, 1} :
        \E e \in PointsIn(rect) : Fn_zoomAt(vb, rect, e, deltaY)

SpecZoom == InitZoom /\ [][NextZoom]_vars

-----------------------------------------------------------------------------
(* MindMapPage2.jsx: buildTreeFromFlatData *)

\* ids of the items of the flat list, with the number of '.' in each
ItemIds == {"task-1", "task-1.1", "task-2"}
DotsIn == ("task-1" :> 0) @@ ("task-1.1" :> 1) @@ ("task-2" :> 0)
\* parentId values: an item id, null, the typo "nul", '' and an id of no item
ParentIds == ItemIds \cup {NullId, "nul", EmptyId, "task-9"}
ItemTask(id) == IF DotsIn[id] = 0 THEN Texts[1] ELSE Texts[2]

RECURSIVE SeqsOfDistinct(_, _)
\* the sequences of up to max different elements of S
SeqsOfDistinct(S, max) ==
    IF max = 0 THEN {<< >>}
    ELSE {<< >>} \cup UNION {{<<x>> \o rest : rest \in SeqsOfDistinct(S \ {x}, max - 1)}
                             : x \in S}
\* the flat lists: items with different ids and any parentId
FlatLists ==
    UNION {{[i \in 1..Len(ids) |->
                [id |-> ids[i], parentId |-> par[i], task |-> ItemTask(ids[i])]]
             : par \in [1..Len(ids) -> ParentIds]}
           : ids \in SeqsOfDistinct(ItemIds, MaxItems)}

\* if (item.parentId && nodeMap.has(item.parentId))
isLinked(flatData, item) ==
    /\ item.parentId \notin {NullId, EmptyId}
    /\ \E i \in 1..Len(flatData) : flatData[i].id = item.parentId

\* else if (item.parentId === null || item.parentId === "nul")
isTopLevel(item) == item.parentId \in {NullId, "nul"}

RECURSIVE nodeOfItem(_, _)
\* nodeMap.get(item.id) once the second forEach has pushed every child
nodeOfItem(flatData, item) ==
    LET kids == SelectSeq(flatData,
                    LAMBDA c : isLinked(flatData, c) /\ c.parentId = item.id)
    IN  [id |-> item.id, parentId |-> item.parentId, task |-> item.task,
         text |-> item.task, level |-> DotsIn[item.id] + 1,
         children |-> [k \in 1..Len(kids) |-> nodeOfItem(flatData, kids[k])]]

\* buildTreeFromFlatData(flatData, rootId, rootText)
buildTreeFromFlatData(flatData, rootText) ==
    LET top == SelectSeq(flatData,
                   LAMBDA c : ~isLinked(flatData, c) /\ isTopLevel(c))
    IN  [id |-> "root", text |-> rootText,
         children |-> [k \in 1..Len(top) |-> nodeOfItem(flatData, top[k])]]

-----------------------------------------------------------------------------
(* ConcentricTaskViewer.jsx: TaskGroup and TaskBar *)

CIRCLE_RADII == <<120, 283, 510, 737>>
BAR_HEIGHT == 22
\* the value of arithmetic on undefined
NaN == [nan |-> TRUE]
\* useState({ 1: -13.51, 2: -3.43, 3: -1.87 })
rotations == (1 :> Rat(-1351, 100)) @@ (2 :> Rat(-343, 100)) @@ (3 :> Rat(-187, 100))

\* a mutant of startY that stacks the bars downwards from the axis
startYFromAxis(tasks) == 0

\* const startY = -totalGroupHeight / 2, an integer as BAR_HEIGHT is even
startY(tasks) == -((Len(tasks) * BAR_HEIGHT) \div 2)

\* TaskBar: what the bar shows
TaskBar(task, isEditing, editedTextProp) ==
    IF isEditing THEN [input |-> editedTextProp] ELSE [text |-> task.text]

\* TaskGroup: the props of the TaskBar of each task; CIRCLE_RADII[level - 1] is
\* undefined outside the four levels
TaskGroup(tasks, level, editingState, selectionState) ==
    LET known == level \in 1..Len(CIRCLE_RADII)
        baseRadius == IF known THEN CIRCLE_RADII[level] ELSE Undefined
        outerRadius == IF level + 1 \in 1..Len(CIRCLE_RADII) THEN CIRCLE_RADII[level + 1]
                       ELSE IF known THEN baseRadius + 200 ELSE NaN
        barWidth == IF known THEN outerRadius - baseRadius ELSE NaN
    IN  [index \in 1..Len(tasks) |->
            [task |-> tasks[index],
             x |-> baseRadius,
             y |-> startY(tasks) + (index - 1) * BAR_HEIGHT,
             width |-> barWidth,
             height |-> BAR_HEIGHT,
             isEditing |-> editingState.editingId = tasks[index].id,
             isSelected |-> selectionState.selectedId = tasks[index].id,
             shown |-> TaskBar(tasks[index],
                               editingState.editingId = tasks[index].id,
                               editingState.editedText)]]

\* the task lists a level can be given
TaskLists ==
    {[i \in 1..Len(ids) |->
         [id |-> ids[i], text |-> ItemTask(ids[i]), level |-> DotsIn[ids[i]] + 1]]
      : ids \in SeqsOfDistinct(ItemIds, MaxTasks)}

-----------------------------------------------------------------------------
(* SpecCalls: buildTreeFromFlatData, TaskGroup and the layout of the larger  *)
(* trees, called directly.                                                    *)

LayoutTrees == TreesUpTo(MaxLayoutNodes)

\* buildTreeFromFlatData(flatData, null, "Projekt 123")
Fn_buildTreeFromFlatData(flatData) ==
    /\ call = NoCall
    /\ call' = [op |-> "buildTreeFromFlatData", flatData |-> flatData,
                result |-> buildTreeFromFlatData(flatData, "Projekt 123")]
    /\ UNCHANGED <<editor, initialData, data, viewBox, editingId, dropTargetId,
                   lastEvent, prevData>>
    /\ UNCHANGED varsA /\ UNCHANGED varsB

\* <TaskGroup tasks level editingState selectionState />
Fn_TaskGroup(tasks, level, editing, selected) ==
    /\ call = NoCall
    /\ call' = [op |-> "TaskGroup", tasks |-> tasks, level |-> level,
                result |-> TaskGroup(tasks, level,
                                     [editingId |-> editing, editedText |-> TypedText],
                                     [selectedId |-> selected])]
    /\ UNCHANGED <<editor, initialData, data, viewBox, editingId, dropTargetId,
                   lastEvent, prevData>>
    /\ UNCHANGED varsA /\ UNCHANGED varsB

\* the nodePositions memo for data = tree
Fn_nodePositionsOf(tree) ==
    /\ call = NoCall
    /\ call' = [op |-> "nodePositions", tree |-> tree, result |-> nodePositions(tree)]
    /\ UNCHANGED <<editor, initialData, data, viewBox, editingId, dropTargetId,
                   lastEvent, prevData>>
    /\ UNCHANGED varsA /\ UNCHANGED varsB

NextCalls ==
    \/ \E flatData \in FlatLists : Fn_buildTreeFromFlatData(flatData)
    \/ \E tasks \in TaskLists, level \in 1..MaxLevel :
          \E editing \in ItemIds \cup {NullId}, selected \in ItemIds \cup {NullId} :
              Fn_TaskGroup(tasks, level, editing, selected)
    \/ \E tree \in LayoutTrees : Fn_nodePositionsOf(tree)

SpecCalls == InitZoom /\ [][NextCalls]_vars

-----------------------------------------------------------------------------
(* SpecCTV: ConcentricTaskViewer.jsx mounted with a tree and with the tasks  *)
(* of that tree grouped by depth.                                             *)

IsC == editor = "ConcentricTaskViewer"

\* useState({ x: -800, y: -800, width: 1600, height: 1600 })
C_InitViewBox ==
    [x |-> RInt(-800), y |-> RInt(-800), width |-> RInt(1600), height |-> RInt(1600)]

\* the clientX / clientY of the pointer events of the viewer
C_Points == ClientPointsUpTo(MaxVpPoint)

RECURSIVE C_ViewportsWithin(_)
\* the viewports at most k pan steps or wheel events away from the initial one
C_ViewportsWithin(k) ==
    IF k = 0 THEN {C_InitViewBox}
    ELSE LET near == C_ViewportsWithin(k - 1)
         IN  near \cup {panBy(vb, start, e) :
                            vb \in near, start \in C_Points, e \in C_Points}
                  \cup {zoomAt(vb, e, deltaY) :
                            vb \in near, e \in C_Points, deltaY \in {-1, 1}}
C_FollowedViewports == C_ViewportsWithin(MaxVpSteps)

RECURSIVE tasksAtLevel(_, _, _, _)
\* the nodes at depth `level` below children[i..], in document order, as tasks
tasksAtLevel(children, i, level, at) ==
    IF i > Len(children) THEN << >>
    ELSE (IF at = level
          THEN <<[id |-> children[i].id, text |-> children[i].text, level |-> level]>>
          ELSE tasksAtLevel(children[i].children, 1, level, at + 1))
         \o tasksAtLevel(children, i + 1, level, at)

\* the groupedTasks prop: the tasks of initialData by depth level, as the host
\* passes them together with initialData
groupedTasksOf(tree) ==
    [level \in {l \in 1..MaxNodes : tasksAtLevel(tree.children, 1, l, 1) # << >>} |->
        tasksAtLevel(tree.children, 1, level, 1)]
groupedTasks == groupedTasksOf(initialData)

\* the ids of the tasks that have a TaskBar
TaskIds ==
    UNION {{groupedTasks[level][i].id : i \in 1..Len(groupedTasks[level])} :
              level \in DOMAIN groupedTasks}

\* rotation={rotations[level] || 0}
rotationOf(level) == IF level \in DOMAIN rotations THEN rotations[level] ELSE RInt(0)

\* the render loop: one TaskGroup per key of groupedTasks, in sorted order
RenderedGroups ==
    [level \in DOMAIN groupedTasks |->
        [rotation |-> rotationOf(level),
         bars |-> TaskGroup(groupedTasks[level], level,
                            [editingId |-> editingId, editedText |-> editedText],
                            [selectedId |-> selectedNodeId])]]

\* the <input> exists while the TaskBar of the edited task is rendered
InputC == editingId \in TaskIds

\* the state after mounting <ConcentricTaskViewer initialData groupedTasks />;
\* selectedNodeId holds the selectedId state
InitCTV ==
    /\ editor = "ConcentricTaskViewer"
    /\ initialData \in TreesUpTo(MaxNodes)
    /\ data = initialData
    /\ viewBox = C_InitViewBox
    /\ editingId = NullId
    /\ dropTargetId = NullId
    /\ draggingNodeId = NullId
    /\ dragPosition = Origin
    /\ isPanning = FALSE
    /\ panStart = Origin
    /\ editText = [id \in NodeIds(initialData) |-> findNode(initialData, id).text]
    /\ selectedNodeId = NullId
    /\ editedText = ""
    /\ ghostNode = NullNode
    /\ interactionRef = [type |-> "none", startPos |-> Origin, nodeId |-> NullId]
    /\ lastEvent = "mount"
    /\ prevData = initialData
    /\ call = NoCall

\* handleTextBlur(): the snapshot after
\* `if (node && node.text !== editedText) setData(update)`
C_autoSave(tree, id, text) ==
    LET node == findNodeCTV(tree, id)
    IN  IF node # NullNode /\ node.text # text THEN update(tree, id, text) ELSE tree

\* handleTextBlur, wired to onBlur of the input and to its Enter key
C_handleTextBlur(name) ==
    /\ IsC /\ InputC
    /\ data' = C_autoSave(data, editingId, editedText)
    /\ editingId' = NullId
    /\ Ran(name)
    /\ UNCHANGED <<viewBox, dropTargetId>>
    /\ UNCHANGED varsB /\ UNCHANGED varsA /\ UNCHANGED constVars

\* handleBackgroundMouseDown(e), the onMouseDown of the svg element: no child
\* stops the event, so it runs for a press on a bar or on the input as well
C_handleBackgroundMouseDown(e) ==
    /\ IsC
    /\ data' = IF editingId \notin {NullId, EmptyId}
               THEN C_autoSave(data, editingId, editedText) ELSE data
    /\ editingId' = NullId
    /\ selectedNodeId' = NullId
    /\ interactionRef' = [type |-> "pan", startPos |-> e, nodeId |-> NullId]
    /\ Ran("backgroundMouseDown")
    /\ UNCHANGED <<viewBox, dropTargetId, editedText, ghostNode>>
    /\ UNCHANGED varsA /\ UNCHANGED constVars

\* handleMouseMove(e)
C_handleMouseMove(e) ==
    /\ IsC
    /\ IF interactionRef.type = "pan"
       THEN /\ panBy(viewBox, interactionRef.startPos, e) \in C_FollowedViewports
            /\ viewBox' = panBy(viewBox, interactionRef.startPos, e)
            /\ interactionRef' = [interactionRef EXCEPT !.startPos = e]
       ELSE UNCHANGED <<viewBox, interactionRef>>
    /\ Ran("other")
    /\ UNCHANGED <<data, editingId, dropTargetId, selectedNodeId, editedText, ghostNode>>
    /\ UNCHANGED varsA /\ UNCHANGED constVars

\* handleMouseUp, wired to onMouseUp and to onMouseLeave; the history names as
\* "mouseUp" the release of a press made on the svg element, the only release
\* the browser follows with a click on a bar
C_handleMouseUp(name) ==
    /\ IsC
    /\ interactionRef' = [type |-> "none", startPos |-> Undefined, nodeId |-> NullId]
    /\ Ran(IF name = "mouseUp" /\ interactionRef.type # "pan" THEN "other" ELSE name)
    /\ UNCHANGED <<data, viewBox, editingId, dropTargetId, selectedNodeId,
                   editedText, ghostNode>>
    /\ UNCHANGED varsA /\ UNCHANGED constVars

\* handleWheel(e)
C_handleWheel(e, deltaY) ==
    /\ IsC
    /\ zoomAt(viewBox, e, deltaY) \in C_FollowedViewports
    /\ viewBox' = zoomAt(viewBox, e, deltaY)
    /\ Ran("other")
    /\ UNCHANGED <<data, editingId, dropTargetId>>
    /\ UNCHANGED varsB /\ UNCHANGED varsA /\ UNCHANGED constVars

\* onClick: setSelectedId, from the <g> of a TaskBar; the browser sends click
\* after the mouseup of a press
C_onClick(n) ==
    /\ IsC /\ n \in TaskIds
    /\ lastEvent = "mouseUp"
    /\ selectedNodeId' = n
    /\ Ran("click")
    /\ UNCHANGED <<data, viewBox, editingId, dropTargetId, editedText, ghostNode,
                   interactionRef>>
    /\ UNCHANGED varsA /\ UNCHANGED constVars

\* handleNodeDoubleClick(nodeId), from the <g> of a TaskBar; the browser sends
\* dblclick after the second click
C_handleNodeDoubleClick(n) ==
    /\ IsC /\ n \in TaskIds
    /\ lastEvent = "click"
    /\ LET node == findNodeCTV(data, n)
       IN  IF node # NullNode
           THEN /\ editingId' = n
                /\ editedText' = node.text
                /\ selectedNodeId' = n
           ELSE UNCHANGED <<editingId, editedText, selectedNodeId>>
    /\ Ran("doubleClick")
    /\ UNCHANGED <<data, viewBox, dropTargetId, ghostNode, interactionRef>>
    /\ UNCHANGED varsA /\ UNCHANGED constVars

\* onTextChange: (e) => setEditedText(e.target.value)
C_onTextChange(s) ==
    /\ IsC /\ InputC
    /\ editedText' = s
    /\ Ran("other")
    /\ UNCHANGED <<data, viewBox, editingId, dropTargetId, selectedNodeId,
                   ghostNode, interactionRef>>
    /\ UNCHANGED varsA /\ UNCHANGED constVars

NextCTV ==
    \/ \E name \in {"blur", "enter"} : C_handleTextBlur(name)
    \/ \E e \in C_Points : C_handleBackgroundMouseDown(e)
    \/ \E e \in C_Points : C_handleMouseMove(e)
    \/ \E name \in {"mouseUp", "mouseLeave"} : C_handleMouseUp(name)
    \/ \E e \in C_Points, deltaY \in {-1, 1} : C_handleWheel(e, deltaY)
    \/ \E n \in NodeIds(data) : C_onClick(n)
    \/ \E n \in NodeIds(data) : C_handleNodeDoubleClick(n)
    \/ \E s \in {TypedText} : C_onTextChange(s)

SpecCTV == InitCTV /\ [][NextCTV]_vars

-----------------------------------------------------------------------------
(* Vocabulary of the properties *)

RECURSIVE NodeAtIn(_, _)
\* the node with this id (the first in document order), NullNode when absent
NodeAt(tree, id) == NodeAtIn(<<tree>>, id)
NodeAtIn(nodes, id) ==
    IF nodes = << >> THEN NullNode
    ELSE IF Head(nodes).id = id THEN Head(nodes)
    ELSE NodeAtIn(Head(nodes).children \o Tail(nodes), id)

Has(tree, id) == id \in NodeIds(tree)
\* b is the id of a node of the subtree rooted at a
Inside(tree, a, b) == Has(tree, a) /\ b \in NodeIds(NodeAt(tree, a))
KidsOf(tree, id) == ChildIdSeq(NodeAt(tree, id))
LastOf(s) == s[Len(s)]

\* a move the specification allows
ValidMove(tree, a, b) ==
    /\ UniqueIds(tree)
    /\ Has(tree, a) /\ Has(tree, b)
    /\ a # tree.id /\ a # b
    /\ ~Inside(tree, a, b)

\* after is before with the subtree a detached and appended to b's children
IsMove(before, after, a, b) ==
    /\ after.id = before.id
    /\ UniqueIds(after)
    /\ NodeIds(after) = NodeIds(before)
    /\ \A n \in NodeIds(before) :
          /\ NodeAt(after, n).text = NodeAt(before, n).text
          /\ KidsOf(after, n) =
                IF n = b THEN Append(RemoveId(KidsOf(before, n), a), a)
                ELSE RemoveId(KidsOf(before, n), a)

IsReparentCall == call.op = "reparentNode" /\ UniqueIds(call.tree)

\* the gesture state of either editor
Dragged ==
    IF IsA THEN draggingNodeId
    ELSE IF interactionRef.type = "drag" THEN interactionRef.nodeId ELSE NullId
DragActive == Dragged # NullId
PanActive == IF IsA THEN isPanning ELSE interactionRef.type = "pan"
EditActive == editingId # NullId
\* the ghost preview that is drawn
GhostShown ==
    IF IsA THEN draggingNodeId # NullId /\ findNode(data, draggingNodeId) # NullNode
    ELSE ghostNode # NullNode
Bit(b) == IF b THEN 1 ELSE 0

-----------------------------------------------------------------------------
(* The claims *)

\* C1: after any sequence of UI events the tree has the root it started with and
\* exactly the node ids it started with, each once (no node lost, duplicated or
\* made its own descendant).
C1_TreePreserved ==
    /\ data.id = initialData.id
    /\ UniqueIds(data)
    /\ NodeIds(data) = NodeIds(initialData)
\* a drop has moved a node to another parent
C1_Witness ==
    /\ lastEvent \in {"mouseUp", "mouseLeave"}
    /\ \E n \in NodeIds(data) : ParentOf(data, n) # ParentOf(initialData, n)

\* C2: reparentNode(T, a, b) returns T unchanged whenever b = a, or a is the
\* root of T, or b is the id of a node inside the subtree rooted at a.
C2_RejectedMoves ==
    (/\ IsReparentCall
     /\ \/ call.b = call.a
        \/ call.a = call.tree.id
        \/ Inside(call.tree, call.a, call.b))
    => call.result = call.tree
\* a non-root node was dropped on a node two levels below it
C2_Witness ==
    /\ IsReparentCall
    /\ call.a # call.tree.id
    /\ Inside(call.tree, call.a, call.b)
    /\ call.b # call.a
    /\ ParentOf(call.tree, call.b) # call.a
    /\ call.result = call.tree

\* C3: reparentNode with a draggedId or a newParentId that matches no node is a
\* no-op; in particular the dragged subtree is not removed.
C3_NotFoundIsNoop ==
    (/\ IsReparentCall
     /\ ~Has(call.tree, call.a) \/ ~Has(call.tree, call.b))
    => call.result = call.tree

\* C4: a valid move removes a from its old parent's children, keeping the order
\* of the remaining siblings, and makes a the last of b's children, after b's
\* previous children in their order.
C4_DetachAndAppend ==
    (IsReparentCall /\ ValidMove(call.tree, call.a, call.b)) =>
        LET old == ParentOf(call.tree, call.a)
        IN  /\ Has(call.result, old) /\ Has(call.result, call.b)
            /\ old # call.b =>
                 KidsOf(call.result, old) = RemoveId(KidsOf(call.tree, old), call.a)
            /\ KidsOf(call.result, call.b) =
                 Append(RemoveId(KidsOf(call.tree, call.b), call.a), call.a)
\* a node with siblings on both sides moved under a node that has children
C4_Witness ==
    /\ IsReparentCall /\ ValidMove(call.tree, call.a, call.b)
    /\ ParentOf(call.tree, call.a) # call.b
    /\ Len(KidsOf(call.tree, ParentOf(call.tree, call.a))) >= 2
    /\ Len(KidsOf(call.tree, call.b)) >= 1
    /\ call.result # call.tree

\* C5: after a valid move the node found for a has the text and the whole
\* subtree it had, and outside the children lists of a's old and new parent
\* nothing has changed.
C5_MovedSubtreeIntact ==
    (IsReparentCall /\ ValidMove(call.tree, call.a, call.b)) =>
        /\ findNode(call.result, call.a) = NodeAt(call.tree, call.a)
        /\ call.result.id = call.tree.id
        /\ NodeIds(call.result) = NodeIds(call.tree)
        /\ \A n \in NodeIds(call.tree) :
              /\ NodeAt(call.result, n).text = NodeAt(call.tree, n).text
              /\ n \notin {ParentOf(call.tree, call.a), call.b} =>
                    KidsOf(call.result, n) = KidsOf(call.tree, n)
\* a node that has a child of its own was moved
C5_Witness ==
    /\ IsReparentCall /\ ValidMove(call.tree, call.a, call.b)
    /\ KidsOf(call.tree, call.a) # << >>
    /\ ParentOf(call.result, call.a) = call.b
    /\ ParentOf(call.tree, call.a) # call.b

\* C6 as stated: dragging a node x that is a descendant of y onto y is rejected
\* and the tree remains unchanged.
C6_DescendantOntoAncestorRejected ==
    (/\ IsReparentCall
     /\ call.a # call.b
     /\ Inside(call.tree, call.b, call.a))
    => call.result = call.tree
\* C6 amended: dragging a node y onto a node x that is a descendant of y is
\* rejected by the cycle guard and the tree remains unchanged.
C6_AncestorOntoDescendantRejected ==
    (/\ IsReparentCall
     /\ call.a # call.b
     /\ Inside(call.tree, call.a, call.b))
    => call.result = call.tree
\* a node was dropped on its own child
C6_Witness ==
    /\ IsReparentCall
    /\ Has(call.tree, call.b)
    /\ ParentOf(call.tree, call.b) = call.a
    /\ call.result = call.tree

\* C7 as stated: dropping a node onto the node that is already its parent
\* leaves the tree, the order of that parent's children included, as it was.
C7_DropOnParentIsNoop ==
    (/\ IsReparentCall
     /\ Has(call.tree, call.a)
     /\ ParentOf(call.tree, call.a) = call.b)
    => call.result = call.tree
\* C7 amended: dropping a node onto the node that is already its parent moves
\* it to the end of that parent's children and changes nothing else; the tree
\* equals the tree before exactly when the node was already the last child.
C7_DropOnParentMovesLast ==
    (/\ IsReparentCall
     /\ Has(call.tree, call.a)
     /\ ParentOf(call.tree, call.a) = call.b)
    => /\ IsMove(call.tree, call.result, call.a, call.b)
       /\ LastOf(KidsOf(call.result, call.b)) = call.a
       /\ (call.result = call.tree) <=> (LastOf(KidsOf(call.tree, call.b)) = call.a)
\* a first child was dropped on its parent and is now the last child
C7_Witness ==
    /\ IsReparentCall
    /\ Has(call.tree, call.a)
    /\ ParentOf(call.tree, call.a) = call.b
    /\ KidsOf(call.tree, call.b)[1] = call.a
    /\ Len(KidsOf(call.tree, call.b)) >= 2
    /\ LastOf(KidsOf(call.result, call.b)) = call.a

\* C8: at most one of panning, node drag and node editing is active.
C8_OneGestureAtATime ==
    Bit(PanActive) + Bit(DragActive) + Bit(EditActive) <= 1

\* C9: a pointer-up while dragging d with drop target t changes the tree to
\* reparentNode(tree, d, t) exactly when t is set, t # d and t is not inside d's
\* subtree; in every other case it leaves the tree unchanged.
C9_PointerUpCommits ==
    [][(lastEvent' = "mouseUp" /\ DragActive) =>
          IF /\ dropTargetId # NullId
             /\ dropTargetId # Dragged
             /\ ~Inside(data, Dragged, dropTargetId)
          THEN IsMove(data, data', Dragged, dropTargetId)
          ELSE data' = data]_vars
\* a pointer-up has committed a move
C9_Witness ==
    /\ lastEvent = "mouseUp"
    /\ data # prevData
    /\ PreorderIds(data) # PreorderIds(prevData)

\* C10: immediately after every pointer-up and every pointer-leave no pan and
\* no drag is active, no ghost preview exists and dropTargetId is unset.
C10_IdleAfterPointerUp ==
    lastEvent \in {"mouseUp", "mouseLeave"} =>
        /\ ~PanActive
        /\ ~DragActive
        /\ ~GhostShown
        /\ dropTargetId = NullId
\* a pointer-leave that ended a drag over a drop target
C10_Witness ==
    /\ lastEvent = "mouseLeave"
    /\ \E n \in NodeIds(data) : ParentOf(data, n) # ParentOf(prevData, n)
    /\ ~DragActive

-----------------------------------------------------------------------------
(* Vocabulary of the editing properties *)

RECURSIVE Subtrees(_)
\* the nodes of a tree, each with its subtree
Subtrees(node) ==
    {node} \cup UNION {Subtrees(node.children[i]) : i \in 1..Len(node.children)}

\* the draft of the edit in progress
Draft == IF IsA THEN editText[editingId] ELSE editedText

\* after is before with the text of node n replaced and nothing else changed
IsRename(before, after, n, text) ==
    /\ PreorderIds(after) = PreorderIds(before)
    /\ \A m \in NodeIds(before) :
          /\ KidsOf(after, m) = KidsOf(before, m)
          /\ NodeAt(after, m).text = IF m = n THEN text ELSE NodeAt(before, m).text

SaveEvents == {"enter", "saveButton", "blur"}
CancelEvents == {"escape", "cancelButton"}

\* C11: no reachable state has an active drag whose node is the root of the
\* tree, whatever id the root carries.
C11_RootNeverDragged ==
    ~(DragActive /\ Dragged = data.id)

\* C12: while a node d is being dragged, dropTargetId is never d.
C12_DraggedIsNotDropTarget ==
    DragActive => dropTargetId # Dragged

\* C13: in every reachable state where no drag is active, dropTargetId is unset.
C13_DropTargetOnlyWhileDragging ==
    ~DragActive => dropTargetId = NullId

\* C14: a pointer-down on a node that starts a drag while a node is being edited
\* first resolves the edit: the draft is committed to the tree and editing has
\* ended when the drag is active.
C14_EditResolvedBeforeDrag ==
    [][(lastEvent' = "nodeMouseDown" /\ EditActive /\ ~DragActive /\ DragActive') =>
          /\ editingId' = NullId
          /\ IsRename(data, data', editingId, Draft)]_vars

\* C15: a double-click that starts an edit while a drag is in progress cancels
\* the drag: afterwards no drag is active and no ghost is shown, so that no later
\* pointer-up or pointer-leave reparents the node as part of that gesture.
C15_DoubleClickCancelsDrag ==
    lastEvent = "doubleClick" => (~DragActive /\ ~GhostShown)

\* C16: a pointer-leave resets pan and drag to idle and leaves the tree
\* unchanged; it never commits a reparent.
C16_PointerLeaveDiscards ==
    lastEvent = "mouseLeave" =>
        /\ data = prevData
        /\ ~PanActive
        /\ ~DragActive

\* C17: when the edit of node n ends by blur, Enter without Shift or explicit
\* save, editing ends and the tree becomes renameNode(tree, n, draft) if the
\* draft differs from n's text, and stays as it is if the draft equals it.
C17_SaveCommitsRename ==
    [][(lastEvent' \in SaveEvents /\ EditActive) =>
          /\ editingId' = NullId
          /\ IF Draft # NodeAt(data, editingId).text
             THEN IsRename(data, data', editingId, Draft) /\ data' # data
             ELSE data' = data]_vars
\* an edit of a node below the root ended with a changed text committed
C17_Witness ==
    /\ lastEvent \in SaveEvents
    /\ ~EditActive
    /\ PreorderIds(data) = PreorderIds(prevData)
    /\ data.text = prevData.text
    /\ data # prevData

\* C18: Escape or explicit cancel while editing ends editing and leaves the tree
\* as it was, whatever the draft text was.
C18_CancelDiscardsDraft ==
    lastEvent \in CancelEvents => (data = prevData /\ ~EditActive)
\* an edit was cancelled with a draft that differs from the node's text
C18_Witness ==
    /\ lastEvent \in CancelEvents
    /\ IsA
    /\ \E n \in NodeIds(data) : editText[n] # NodeAt(data, n).text

\* C19: whenever editing of node n starts, the draft equals n's current text in
\* the tree, also after an earlier edit of n was cancelled with another draft.
C19_DraftIsCurrentText ==
    (lastEvent = "doubleClick" /\ EditActive) =>
        Draft = NodeAt(data, editingId).text

\* C20: for every tree T with unique ids and every id n, findNode(T, n) is the
\* node of T whose id is n when there is one, at any depth, and none otherwise.
C20_FindNodeCorrect ==
    (call.op = "findNode" /\ UniqueIds(call.tree)) =>
        IF \E t \in Subtrees(call.tree) : t.id = call.id
        THEN /\ call.result \in Subtrees(call.tree)
             /\ call.result.id = call.id
        ELSE call.result = NullNode
\* a node two levels below the root, after an earlier sibling subtree, was found
C20_Witness ==
    /\ call.op = "findNode" /\ UniqueIds(call.tree)
    /\ call.result # NullNode
    /\ ParentOf(call.tree, call.id) \notin {NullId, call.tree.id}
    /\ Len(call.tree.children) >= 2
    /\ ParentOf(call.tree, call.id) = LastOf(call.tree.children).id

-----------------------------------------------------------------------------
(* Vocabulary of the layout properties *)

RECURSIVE Depth(_, _)
\* the number of ancestors of the node with this id
Depth(tree, id) == IF id = tree.id THEN 0 ELSE 1 + Depth(tree, ParentOf(tree, id))

IsLayoutCall == call.op = "nodePositions" /\ UniqueIds(call.tree)

\* C21: renameNode(T, id, s) gives the node with that id the text s and changes
\* nothing else (ids, structure, child order, other texts); when no node has the
\* id the result equals T.
C21_RenameFrame ==
    (call.op = "renameNode" /\ UniqueIds(call.tree)) =>
        IF Has(call.tree, call.id)
        THEN /\ IsRename(call.tree, call.result, call.id, call.text)
             /\ NodeAt(call.result, call.id).text = call.text
        ELSE call.result = call.tree
\* a node below the root that has children was given another text
C21_Witness ==
    /\ call.op = "renameNode" /\ UniqueIds(call.tree)
    /\ Has(call.tree, call.id)
    /\ call.id # call.tree.id
    /\ KidsOf(call.tree, call.id) # << >>
    /\ NodeAt(call.tree, call.id).text # call.text
    /\ NodeAt(call.result, call.id).text = call.text

\* C22: renameNode is idempotent: renaming the renamed tree again with the same
\* id and text gives the same tree as renaming once.
C22_RenameIdempotent ==
    call.op = "renameNode" => call.twice = call.result
\* a rename that changed the tree was applied twice
C22_Witness ==
    /\ call.op = "renameNode"
    /\ call.result # call.tree
    /\ call.twice = call.result

-----------------------------------------------------------------------------
(* Vocabulary of the viewport properties *)

\* where the current pan step starts
PanStart == IF IsA THEN panStart ELSE interactionRef.startPos
\* the logical point under the screen point e
ToLogical(vb, rect, e) ==
    [x |-> RAdd(vb.x, RDiv(RMul(RInt(e.x - rect.left), vb.width), RInt(rect.width))),
     y |-> RAdd(vb.y, RDiv(RMul(RInt(e.y - rect.top), vb.height), RInt(rect.height)))]

\* C23: the tree changes only when an edit is committed or a drop reparents a
\* node: moves, hover, wheel, typing, pointer-down on a node, double-click,
\* cancel and Escape, and the pointer-up or pointer-leave that ends a pan, leave
\* it unchanged.
C23_TreeChangesOnlyOnCommitOrDrop ==
    [][ /\ lastEvent' \in {"other", "nodeMouseDown", "doubleClick"} \cup CancelEvents
            => data' = data
        /\ (lastEvent' \in {"mouseUp", "mouseLeave"} /\ ~DragActive) => data' = data
        /\ data' # data =>
              \/ /\ EditActive
                 /\ lastEvent' \in SaveEvents \cup {"backgroundMouseDown"}
                 /\ IsRename(data, data', editingId, Draft)
              \/ /\ DragActive /\ dropTargetId # NullId
                 /\ lastEvent' \in {"mouseUp", "mouseLeave"}
                 /\ IsMove(data, data', Dragged, dropTargetId)
      ]_vars
\* a pan is in progress over a tree that a drop and an edit commit have changed;
\* the last event, a move, hover or wheel event, left the tree as it was
C23_Witness ==
    /\ PanActive /\ lastEvent = "other"
    /\ data = prevData
    /\ PreorderIds(data) # PreorderIds(initialData)
    /\ \E n \in NodeIds(data) : NodeAt(data, n).text # NodeAt(initialData, n).text

\* C24: the viewport rectangle changes only in a pointer-move while panning
\* (x and y) and in a wheel event; every other event leaves x, y, width and
\* height unchanged.
C24_ViewportChangesOnlyByPanAndWheel ==
    [][ viewBox' # viewBox =>
          /\ lastEvent' = "other"
          /\ UNCHANGED <<data, editingId, dropTargetId, draggingNodeId, dragPosition,
                         isPanning, editText, selectedNodeId, editedText, ghostNode>>
          /\ interactionRef'.type = interactionRef.type
          /\ \/ /\ PanActive
                /\ PanStart' # PanStart
                /\ viewBox'.width = viewBox.width
                /\ viewBox'.height = viewBox.height
             \/ /\ panStart' = panStart /\ interactionRef' = interactionRef
                /\ viewBox'.width # viewBox.width
      ]_vars
\* the viewport was panned and zoomed, and the edit commit that just changed
\* the tree left it there
C24_Witness ==
    /\ viewBox.x # InitViewBox.x
    /\ viewBox.width # InitViewBox.width
    /\ lastEvent \in SaveEvents
    /\ data # prevData


\* C25: in the layout of every tree reached by renames and reparents a node at
\* depth d has x = d * (NODE_WIDTH + H_SPACING) = 260 * d, and the root is at (0, 0).
C25_DepthDeterminesX ==
    LET pos == nodePositions(data)
    IN  /\ DOMAIN pos = NodeIds(data)
        /\ pos[data.id] = [x |-> 0, y |-> RInt(0)]
        /\ \A n \in NodeIds(data) :
              /\ pos[n].x = Depth(data, n) * (NODE_WIDTH + H_SPACING)
              /\ pos[n].x = 260 * Depth(data, n)
\* a node was moved from depth 1 to depth 2 and a node was renamed
C25_Witness ==
    /\ \E n \in NodeIds(data) : Depth(data, n) = 2 /\ Depth(initialData, n) = 1
    /\ \E m \in NodeIds(data) : NodeAt(data, m).text # NodeAt(initialData, m).text
    /\ \E n \in NodeIds(data) : nodePositions(data)[n].x = 520

\* C26: for a parent at y = p with n >= 1 children the i-th child (from 0) is at
\* y = p - (n*90 - 30)/2 + 30 + 90*i: siblings are 90 apart and symmetric about
\* p, and the middle one of three children is at p.
C26_ChildrenCentred ==
    IsLayoutCall =>
        \A t \in Subtrees(call.tree) :
            LET n == Len(t.children)
                p == call.result[t.id].y
                y(i) == call.result[t.children[i].id].y
            IN  /\ \A i \in 1..n :
                      y(i) = RAdd(RSub(p, Rat(n * 90 - 30, 2)), RInt(30 + 90 * (i - 1)))
                /\ \A i \in 1..(n - 1) :
                      RSub(y(i + 1), y(i)) = RInt(NODE_HEIGHT + V_SPACING)
                /\ \A i \in 1..n : RAdd(y(i), y(n + 1 - i)) = RMul(RInt(2), p)
                /\ n = 3 => y(2) = p
\* the layout of a tree whose root has three children: at -90, 0 and 90
C26_Witness ==
    /\ IsLayoutCall
    /\ Len(call.tree.children) = 3
    /\ call.result[call.tree.children[1].id].y = RInt(-90)
    /\ call.result[call.tree.children[2].id].y = RInt(0)
    /\ call.result[call.tree.children[3].id].y = RInt(90)

\* C27: for a node with an empty children list the sibling-group height the
\* layout computes is 0, never negative.
C27_EmptyGroupHeightZero ==
    IsLayoutCall =>
        \A t \in Subtrees(call.tree) :
            t.children = << >> => totalChildHeight(t.children) = 0

\* C28: after a wheel zoom in or out (factor 1.1) the logical point under the
\* pointer, viewport.x + (clientX - left) * viewport.width / rectWidth and
\* likewise for y, is the same with the new viewport as with the old one.
C28_ZoomKeepsAnchor ==
    call.op = "zoomAt" =>
        /\ ToLogical(call.result, call.rect, call.e) = ToLogical(call.vb, call.rect, call.e)
        /\ call.result.width =
              IF call.deltaY < 0 THEN RDiv(call.vb.width, Rat(11, 10))
                                 ELSE RMul(call.vb.width, Rat(11, 10))
        /\ call.result.height =
              IF call.deltaY < 0 THEN RDiv(call.vb.height, Rat(11, 10))
                                 ELSE RMul(call.vb.height, Rat(11, 10))
\* a zoom in on a panned viewport, with the svg element away from the corner of
\* the page and the pointer inside it: x and y of the viewport changed
C28_Witness ==
    /\ call.op = "zoomAt" /\ call.deltaY < 0
    /\ call.vb.x # InitViewBox.x
    /\ call.rect.left > 0 /\ call.rect.top > 0
    /\ call.e.x > call.rect.left /\ call.e.y > call.rect.top
    /\ call.result.x # call.vb.x /\ call.result.y # call.vb.y

\* C29: a pointer-move by (dx, dy) while panning shifts the viewport to
\* x - dx*scale, y - dy*scale with scale = viewport.width / screenWidth, keeps
\* width and height, and makes the moved-to position the start of the next
\* step; so a pan split into two moves ends where one move by the sum ends.
C29_PanStep ==
    [][ (PanActive /\ lastEvent' = "other" /\ viewBox'.width = viewBox.width) =>
          LET dx == RInt(PanStart'.x - PanStart.x)
              dy == RInt(PanStart'.y - PanStart.y)
              scale == RDiv(viewBox.width, RInt(SvgRect.width))
          IN  /\ viewBox' = [x |-> RSub(viewBox.x, RMul(dx, scale)),
                             y |-> RSub(viewBox.y, RMul(dy, scale)),
                             width |-> viewBox.width,
                             height |-> viewBox.height]
              /\ \A e1 \in ClientPoints, e2 \in ClientPoints :
                    panBy(panBy(viewBox, PanStart, e1), e1, e2)
                        = panBy(viewBox, PanStart, e2)
      ]_vars
\* a pan of the zoomed-in viewport that has come 200 screen pixels to the
\* right, in one move or in two
C29_Witness ==
    /\ PanActive /\ lastEvent = "other"
    /\ PanStart = [x |-> 200, y |-> 100]
    /\ viewBox.width = RDiv(InitViewBox.width, Rat(11, 10))
    /\ viewBox.x = RSub(InitViewBox.x, RMul(RInt(200), RDiv(viewBox.width, RInt(500))))

\* C30 as stated: isDescendant(node, id) is true exactly when node lies in the
\* subtree rooted at the node whose id is id.
C30_NodeInsideCandidate ==
    (call.op = "isDescendant" /\ UniqueIds(call.tree)) =>
        (call.result <=> Inside(call.tree, call.id, call.node))
\* C30 amended: isDescendant(node, id) is true exactly when the node whose id is
\* id lies in the subtree rooted at node (it is node or one of its descendants).
C30_CandidateInsideNode ==
    (call.op = "isDescendant" /\ UniqueIds(call.tree)) =>
        (call.result <=>
            \E t \in Subtrees(NodeAt(call.tree, call.node)) : t.id = call.id)
\* the id of a grandchild of the node was found
C30_Witness ==
    /\ call.op = "isDescendant" /\ UniqueIds(call.tree)
    /\ call.result
    /\ call.id # call.node
    /\ ParentOf(call.tree, call.id) # call.node

-----------------------------------------------------------------------------
(* Selection and auto-save *)

\* C31: in the editors that track a selection, whenever a node is being edited
\* the selected node id equals the editing node id.
C31_EditedNodeIsSelected ==
    (editor \in {"part_001", "ConcentricTaskViewer"} /\ EditActive)
        => selectedNodeId = editingId

\* C32: in part_001 a pointer-down on the background while node n is being
\* edited renames n to the draft when the draft differs from n's text and
\* leaves the tree alone otherwise; afterwards no node is being edited, none is
\* selected and the interaction type is pan.
C32_BackgroundPointerDownAutoSaves ==
    [][ (IsB /\ EditActive /\ lastEvent' = "backgroundMouseDown") =>
          /\ IF Draft # NodeAt(data, editingId).text
             THEN IsRename(data, data', editingId, Draft) /\ data' # data
             ELSE data' = data
          /\ editingId' = NullId
          /\ selectedNodeId' = NullId
          /\ interactionRef'.type = "pan"
      ]_vars
\* the pointer-down on the background has just saved a changed draft
C32_Witness ==
    /\ IsB /\ lastEvent = "backgroundMouseDown"
    /\ data # prevData
    /\ editingId = NullId /\ selectedNodeId = NullId
    /\ interactionRef.type = "pan"

-----------------------------------------------------------------------------
(* The host page and the concentric viewer *)

\* the number of times x occurs in the sequence s
Count(s, x) == Cardinality({i \in 1..Len(s) : s[i] = x})
\* the parentId of the item with this id, null when there is none
ParentIn(flatData, id) ==
    LET S == {i \in 1..Len(flatData) : flatData[i].id = id}
    IN  IF S = {} THEN NullId ELSE flatData[CHOOSE i \in S : TRUE].parentId
RECURSIVE AncestorsIn(_, _, _)
AncestorsIn(flatData, id, k) ==
    IF k = 0 THEN {}
    ELSE {ParentIn(flatData, id)} \cup AncestorsIn(flatData, ParentIn(flatData, id), k - 1)
\* a call on a list where no item is its own ancestor
IsBuildCall ==
    /\ call.op = "buildTreeFromFlatData"
    /\ \A i \in 1..Len(call.flatData) :
          call.flatData[i].id
              \notin AncestorsIn(call.flatData, call.flatData[i].id, Len(call.flatData))

\* C33: buildTreeFromFlatData attaches every item whose parentId is not the id
\* of an input item (null, the sentinel string or any other value) directly
\* under the root, and every input item occurs exactly once in the built tree.
C33_UnknownParentsAttachToRoot ==
    IsBuildCall =>
        LET ids == {call.flatData[i].id : i \in 1..Len(call.flatData)}
        IN  \A i \in 1..Len(call.flatData) :
              /\ call.flatData[i].parentId \notin ids
                    => Count(ChildIdSeq(call.result), call.flatData[i].id) = 1
              /\ Count(PreorderIds(call.result), call.flatData[i].id) = 1

\* C34: the bars of a level keep the order of the list and are stacked without
\* gap or overlap, centred on the axis: bar i of n (from 0) is at
\* y = -(n*22)/2 + 22*i, starts at the level's radius and ends at the next
\* radius, or 200 further out for the outermost level.
C34_BarsStackedAndCentred ==
    (call.op = "TaskGroup" /\ call.level \in 1..4) =>
        LET n == Len(call.tasks)
            bar(i) == call.result[i]
        IN  /\ Len(call.result) = n
            /\ \A i \in 1..n :
                  /\ bar(i).task = call.tasks[i]
                  /\ 2 * bar(i).y = -(n * 22) + 2 * 22 * (i - 1)
                  /\ bar(i).height = 22
                  /\ bar(i).x = <<120, 283, 510, 737>>[call.level]
                  /\ bar(i).x + bar(i).width = <<283, 510, 737, 937>>[call.level]
            /\ \A i \in 1..(n - 1) : bar(i + 1).y = bar(i).y + bar(i).height
            /\ n > 0 => bar(1).y = -(bar(n).y + bar(n).height)
\* three bars in the outermost level, at -33, -11 and 11, each 200 wide
C34_Witness ==
    /\ call.op = "TaskGroup" /\ call.level = 4
    /\ Len(call.tasks) = 3
    /\ call.result[1].y = -33 /\ call.result[2].y = -11 /\ call.result[3].y = 11
    /\ call.result[1].task.id # call.result[2].task.id
    /\ call.result[3].width = 200

\* C35: the horizontal layout gives different nodes different positions.
C35_PositionsDistinct ==
    IsLayoutCall =>
        \A n \in NodeIds(call.tree), m \in NodeIds(call.tree) :
            n # m => call.result[n] # call.result[m]

\* C36: in ConcentricTaskViewer the text shown on the bar of every task that is
\* not being edited is the text of that node in the current tree snapshot; in
\* particular, after a changed draft is committed by blur or Enter the bar of
\* the task shows the committed text.
C36_ShownTextIsTreeText ==
    IsC =>
        \A level \in DOMAIN RenderedGroups :
            \A i \in 1..Len(RenderedGroups[level].bars) :
                LET bar == RenderedGroups[level].bars[i]
                IN  ~bar.isEditing =>
                        bar.shown = [text |-> findNodeCTV(data, bar.task.id).text]

====
